---- MODULE Spec2Model ----
(***************************************************************************)
(* Model of the Aegis agent host (src/python-agent-host/app.py): the       *)
(* service start-up (connect_to_ollama, connect_to_elasticsearch) and the  *)
(* multi-turn loop of AgentService.HandleIncident, together with the mock  *)
(* payment service it calls (src/tools/payment-tool/main.py).              *)
(*                                                                         *)
(* Python values are modelled as JSON values: records [type, val, items].  *)
(* A dict is an insertion-ordered sequence of <<key, value>> pairs, as in  *)
(* Python.  Texts are TLA+ strings; json_dumps builds the text of a value  *)
(* and json_loads inverts it over the finite universe of values the model  *)
(* exchanges.                                                              *)
(***************************************************************************)
EXTENDS Integers, Sequences, FiniteSets, TLC

(***************************************************************************)
(* JSON / Python values                                                    *)
(***************************************************************************)
JNull == [type |-> "null", val |-> "", items |-> <<>>]
JStr(s) == [type |-> "str", val |-> s, items |-> <<>>]
JInt(s) == [type |-> "int", val |-> s, items |-> <<>>]
JBool(s) == [type |-> "bool", val |-> s, items |-> <<>>]
JList(xs) == [type |-> "list", val |-> "", items |-> xs]
JDict(kvs) == [type |-> "dict", val |-> "", items |-> kvs]

\* Python truthiness of a value ("if tool_name", "and user_id_from_event").
truthy(v) ==
    CASE v.type = "null" -> FALSE
      [] v.type = "str" -> v.val # ""
      [] v.type = "int" -> v.val # "0"
      [] v.type = "bool" -> v.val = "true"
      [] OTHER -> Len(v.items) > 0

\* "key in d" for a dict d.
dict_has(d, k) == \E i \in 1..Len(d.items) : d.items[i][1] = k

\* d.get(key, default)
dict_get(d, k, default) ==
    IF dict_has(d, k)
    THEN d.items[CHOOSE i \in 1..Len(d.items) : d.items[i][1] = k][2]
    ELSE default

\* d[key] = v : replaces in place, or appends the key at the end.
dict_set(d, k, v) ==
    IF dict_has(d, k)
    THEN JDict([i \in 1..Len(d.items) |->
                  IF d.items[i][1] = k THEN <<k, v>> ELSE d.items[i]])
    ELSE JDict(Append(d.items, <<k, v>>))

RECURSIVE json_dumps(_)
RECURSIVE dumps_items(_, _, _)
\* The elements of a list, or the "key": value members of a dict, from
\* position i on, separated by ", ".
dumps_items(v, i, isDict) ==
    IF i > Len(v.items) THEN ""
    ELSE (IF isDict
          THEN "\"" \o v.items[i][1] \o "\": " \o json_dumps(v.items[i][2])
          ELSE json_dumps(v.items[i]))
         \o (IF i < Len(v.items) THEN ", " ELSE "")
         \o dumps_items(v, i + 1, isDict)

\* json.dumps(v)
json_dumps(v) ==
    CASE v.type = "null" -> "null"
      [] v.type = "str" -> "\"" \o v.val \o "\""
      [] v.type = "int" -> v.val
      [] v.type = "bool" -> v.val
      [] v.type = "list" -> "[" \o dumps_items(v, 1, FALSE) \o "]"
      [] OTHER -> "{" \o dumps_items(v, 1, TRUE) \o "}"

\* str(v) as an f-string interpolates it.
py_str(v) ==
    CASE v.type = "null" -> "None"
      [] v.type = "str" -> v.val
      [] v.type = "bool" -> (IF v.val = "true" THEN "True" ELSE "False")
      [] v.type = "int" -> v.val
      [] OTHER -> json_dumps(v)

\* type(v).__name__, as it appears in the text of an AttributeError.
py_type_name(v) ==
    CASE v.type = "null" -> "NoneType"
      [] v.type = "bool" -> "bool"
      [] OTHER -> v.type

(***************************************************************************)
(* Program constants                                                       *)
(***************************************************************************)
max_turns == 5
ES_RETRIES == 5
PAYMENT_TOOL_URL == "http://payment-tool:8000"

\* The worker threads of the gRPC server that run HandleIncident.
Workers == {"w1"}

(***************************************************************************)
(* The inputs of the model: incident payloads, model outputs, and the      *)
(* JSON values json_loads can recognise.                                   *)
(***************************************************************************)
Envelope(name, args) == JDict(<< <<"tool_name", name>>, <<"tool_args", args>> >>)

KnownPayload == JDict(<< <<"user_id", JInt("42")>>, <<"order_id", JInt("7")>> >>)
PayloadValues == {KnownPayload, JList(<<>>)}
EventTypes == {"payment_failed"}
FullEventJsons == {json_dumps(v) : v \in PayloadValues} \cup {"payment failed"}

ToolCallOutputs ==
    { Envelope(JStr("get_payment_methods"), JDict(<<>>)),
      Envelope(JStr("retry_payment"),
               JDict(<< <<"payment_method_id", JStr("card_B_paypal")>> >>)),
      Envelope(JStr("query_knowledge_base"),
               JDict(<< <<"query", JStr("multiple payment failures")>> >>)),
      Envelope(JStr("escalate_to_human"),
               JDict(<< <<"order_id", JInt("8")>>, <<"reason", JStr("policy")>> >>)),
      Envelope(JStr("refund_order"), JDict(<<>>)),
      Envelope(JInt("5"), JDict(<<>>)) }

OtherJsonOutputs ==
    { JList(<<JInt("1"), JInt("2")>>),
      JDict(<< <<"answer", JStr("done")>> >>),
      Envelope(JStr(""), JDict(<<>>)),
      Envelope(JStr("retry_payment"), JStr("x")) }

JsonOutputs == ToolCallOutputs \cup OtherJsonOutputs
TextOutputs == {"Payment retried successfully."}
LLMOutputs == TextOutputs \cup {json_dumps(v) : v \in JsonOutputs}

\* Tool calls whose identifier argument is not a number.
IdToolCallOutputs ==
    { Envelope(JStr("get_payment_methods"),
               JDict(<< <<"user_id", JStr("abc")>> >>)),
      Envelope(JStr("retry_payment"),
               JDict(<< <<"order_id", JStr("abc")>>,
                        <<"payment_method_id", JStr("card_B_paypal")>> >>)),
      Envelope(JStr("escalate_to_human"),
               JDict(<< <<"order_id", JStr("abc")>>, <<"reason", JStr("policy")>> >>)) }
IdLLMOutputs == TextOutputs \cup {json_dumps(v) : v \in IdToolCallOutputs}

\* Tool calls with and without the identifier that the dispatcher fills in,
\* and a call as it reads once filled from KnownPayload.
BackfillToolCallOutputs ==
    { Envelope(JStr("get_payment_methods"), JDict(<<>>)),
      Envelope(JStr("get_payment_methods"), JDict(<< <<"user_id", JInt("8")>> >>)),
      Envelope(JStr("get_payment_methods"), JDict(<< <<"user_id", JInt("42")>> >>)),
      Envelope(JStr("retry_payment"),
               JDict(<< <<"payment_method_id", JStr("card_B_paypal")>> >>)),
      Envelope(JStr("retry_payment"),
               JDict(<< <<"order_id", JInt("8")>>,
                        <<"payment_method_id", JStr("card_B_paypal")>> >>)),
      Envelope(JStr("escalate_to_human"), JDict(<< <<"reason", JStr("policy")>> >>)),
      Envelope(JStr("escalate_to_human"),
               JDict(<< <<"order_id", JInt("8")>>, <<"reason", JStr("policy")>> >>)) }
BackfillLLMOutputs == TextOutputs \cup {json_dumps(v) : v \in BackfillToolCallOutputs}

JSONUniverse ==
    JsonOutputs \cup PayloadValues \cup IdToolCallOutputs \cup BackfillToolCallOutputs

\* The JSON text of each value of the universe.
JsonText == [v \in JSONUniverse |-> json_dumps(v)]

\* json.loads(text): the value whose JSON text this is; ok = FALSE stands
\* for json.JSONDecodeError.
json_loads(text) ==
    IF \E v \in JSONUniverse : JsonText[v] = text
    THEN [ok |-> TRUE, value |-> CHOOSE v \in JSONUniverse : JsonText[v] = text]
    ELSE [ok |-> FALSE, value |-> JNull]

(***************************************************************************)
(* The payment service (src/tools/payment-tool/main.py)                    *)
(***************************************************************************)
\* The texts pydantic coerces to an int field.
NumericStrings == {"7", "8", "42"}

\* Validation of an `int` field of a request model.
IsIntField(body, k) ==
    /\ dict_has(body, k)
    /\ LET v == dict_get(body, k, JNull)
       IN v.type = "int" \/ (v.type = "str" /\ v.val \in NumericStrings)

\* Validation of a `str` field of a request model.
IsStrField(body, k) ==
    dict_has(body, k) /\ dict_get(body, k, JNull).type = "str"

HttpResponse(code, body) == [status_code |-> code, json |-> body]

\* What the payment service's database may hold for a user.
DbStates == {"active", "empty", "unavailable"}

ActiveMethod ==
    JDict(<< <<"payment_method_id", JStr("card_B_paypal")>>,
             <<"method_type", JStr("paypal")>>,
             <<"status", JStr("active")>> >>)

\* POST /get_payment_methods
get_payment_methods(body, db) ==
    IF ~(body.type = "dict" /\ IsIntField(body, "user_id"))
    THEN HttpResponse(422, JNull)
    ELSE IF db = "unavailable"
    THEN HttpResponse(503, JNull)
    ELSE HttpResponse(200,
           JDict(<< <<"payment_methods",
                      JList(IF db = "active" THEN <<ActiveMethod>> ELSE <<>>)>> >>))

\* POST /retry_payment (mock: only card_B_paypal succeeds)
retry_payment(body) ==
    IF ~(body.type = "dict" /\ IsIntField(body, "order_id")
                            /\ IsStrField(body, "payment_method_id"))
    THEN HttpResponse(422, JNull)
    ELSE IF dict_get(body, "payment_method_id", JNull) = JStr("card_B_paypal")
    THEN HttpResponse(200,
           JDict(<< <<"status", JStr("success")>>,
                    <<"transaction_id",
                      JStr("txn_" \o dict_get(body, "order_id", JNull).val \o "_paypal")>>,
                    <<"reason", JNull>> >>))
    ELSE HttpResponse(200,
           JDict(<< <<"status", JStr("failed")>>,
                    <<"transaction_id", JNull>>,
                    <<"reason", JStr("Insufficient funds (mocked)")>> >>))

(***************************************************************************)
(* Tool calling functions of AgentService.  Each returns the tool result   *)
(* and which collaborator it contacted.                                    *)
(***************************************************************************)
ErrorResult(msg) == JDict(<< <<"error", JStr(msg)>> >>)

Called(result, posts, searches, tickets) ==
    [tool_result |-> result, posts |-> posts, searches |-> searches,
     tickets |-> tickets]

\* What the collaborators do during the one tool call of a turn: the
\* network and the database of the payment service, and the search index.
\* A turn contacts one collaborator, so one record describes them all.
Env(net, db, search) == [net |-> net, db |-> db, search |-> search]
Envs == {Env("up", "active", "hit"), Env("down", "active", "error")}

\* A collaborator that fails: the payment service is unreachable, its
\* database is, or the search raises.
Faulty(env) == env.net = "down" \/ env.db = "unavailable" \/ env.search = "error"

\* Variant: the HTTP status is not checked (no raise_for_status), the body
\* of any answer is returned as the result.
call_payment_tool_NoStatusCheck(tool_name, tool_args, env) ==
    IF tool_name # JStr("get_payment_methods") /\ tool_name # JStr("retry_payment")
    THEN Called(ErrorResult("Tool '" \o py_str(tool_name)
                            \o "' not recognized by payment tool caller."), 0, 0, 0)
    ELSE IF env.net = "down"
    THEN Called(ErrorResult("Failed to call tool " \o tool_name.val
                            \o ": Connection refused"), 1, 0, 0)
    ELSE Called((IF tool_name = JStr("get_payment_methods")
                 THEN get_payment_methods(tool_args, env.db)
                 ELSE retry_payment(tool_args)).json, 1, 0, 0)

\* Variant: a refused connection is tried a second time.
call_payment_tool_PostsAgain(tool_name, tool_args, env) ==
    IF tool_name # JStr("get_payment_methods") /\ tool_name # JStr("retry_payment")
    THEN Called(ErrorResult("Tool '" \o py_str(tool_name)
                            \o "' not recognized by payment tool caller."), 0, 0, 0)
    ELSE LET api_endpoint == PAYMENT_TOOL_URL \o "/" \o tool_name.val
             response == IF tool_name = JStr("get_payment_methods")
                         THEN get_payment_methods(tool_args, env.db)
                         ELSE retry_payment(tool_args)
             failed(e) == ErrorResult("Failed to call tool " \o tool_name.val
                                      \o ": " \o e)
         IN IF env.net = "down"
            THEN Called(failed("Connection refused"), 2, 0, 0)
            ELSE IF response.status_code >= 400
            THEN Called(failed(IF response.status_code = 422
                               THEN "422 Client Error for url: " \o api_endpoint
                               ELSE "503 Server Error for url: " \o api_endpoint),
                        1, 0, 0)
            ELSE Called(response.json, 1, 0, 0)

call_payment_tool(tool_name, tool_args, env) ==
    IF tool_name # JStr("get_payment_methods") /\ tool_name # JStr("retry_payment")
    THEN Called(ErrorResult("Tool '" \o py_str(tool_name)
                            \o "' not recognized by payment tool caller."), 0, 0, 0)
    ELSE LET api_endpoint == PAYMENT_TOOL_URL \o "/" \o tool_name.val
             response == IF tool_name = JStr("get_payment_methods")
                         THEN get_payment_methods(tool_args, env.db)
                         ELSE retry_payment(tool_args)
             failed(e) == ErrorResult("Failed to call tool " \o tool_name.val
                                      \o ": " \o e)
         IN IF env.net = "down"
            THEN Called(failed("Connection refused"), 1, 0, 0)
            ELSE IF response.status_code >= 400
            THEN Called(failed(IF response.status_code = 422
                               THEN "422 Client Error for url: " \o api_endpoint
                               ELSE "503 Server Error for url: " \o api_endpoint),
                        1, 0, 0)
            ELSE Called(response.json, 1, 0, 0)

call_knowledge_base(es, query, env) ==
    IF es = "None"
    THEN Called(ErrorResult("Knowledge base (Elasticsearch) is unavailable."), 0, 0, 0)
    ELSE CASE env.search = "hit" ->
                Called(JDict(<< <<"policy_found", JBool("true")>>,
                                <<"policy_id", JStr("POL-001")>>,
                                <<"policy_content", JStr("Escalate to a human.")>> >>),
                       0, 1, 0)
           [] env.search = "miss" ->
                Called(JDict(<< <<"policy_found", JBool("false")>>,
                                <<"policy_content", JStr("No relevant policy found.")>> >>),
                       0, 1, 0)
           [] OTHER ->
                Called(ErrorResult("Error querying knowledge base: ConnectionError"),
                       0, 1, 0)

\* Variant: the ticket is filed a second time.
call_escalate_to_human_FilesTwice(order_id, reason) ==
    Called(JDict(<< <<"ticket_id", JStr("SIM" \o py_str(order_id))>>,
                    <<"status", JStr("Escalation ticket created successfully.")>> >>),
           0, 0, 2)

call_escalate_to_human(order_id, reason) ==
    Called(JDict(<< <<"ticket_id", JStr("SIM" \o py_str(order_id))>>,
                    <<"status", JStr("Escalation ticket created successfully.")>> >>),
           0, 0, 1)

(***************************************************************************)
(* State                                                                   *)
(***************************************************************************)
VARIABLES
    boot,           \* position of the main thread in AgentService.__init__ / serve
    ollama_client,  \* self.ollama_client: "None" or "Client"
    es_client,      \* self.es_client: "None" or "Client"
    retries,        \* local `retries` of connect_to_elasticsearch
    frame,          \* per worker: the locals of its HandleIncident invocation
    obs             \* per worker: what the invocation did (observation only)

vars == <<boot, ollama_client, es_client, retries, frame, obs>>

NoResponse == [status |-> "", agent_response |-> ""]
NoRequest == [event_type |-> "", full_event_json |-> ""]

IdleFrame ==
    [pc |-> "idle",
     request |-> NoRequest,
     user_id_from_event |-> JNull,
     order_id_from_event |-> JNull,
     conversation_history |-> <<>>,
     current_turn |-> 0,
     last_tool_name_planned_in_prev_turn |-> JNull,
     expect_json |-> "True",
     llm_response_str |-> "",
     tool_name |-> JNull,
     tool_args |-> JNull,
     tool_result |-> JNull,
     tool_executed_this_turn |-> FALSE,
     final_summary |-> "",
     response |-> NoResponse]

IdleObs ==
    [iterations |-> 0, llm_calls |-> 0, tool_calls |-> 0, payment_posts |-> 0, es_searches |-> 0,
     tickets |-> 0, faults |-> 0, returns |-> 0, exit |-> "none",
     history_created |-> FALSE,
     last_call |-> [tool_result |-> JNull, posts |-> 0, searches |-> 0,
                    tickets |-> 0],
     last_env |-> [net |-> "up", db |-> "active", search |-> "hit"]]

Init ==
    /\ boot = "connect_to_ollama"
    /\ ollama_client = "None"
    /\ es_client = "None"
    /\ retries = 0
    /\ frame = [w \in Workers |-> IdleFrame]
    /\ obs = [w \in Workers |-> IdleObs]

(***************************************************************************)
(* Start-up: AgentService.__init__                                         *)
(***************************************************************************)
\* connect_to_ollama: the client is kept only if list() succeeds.
connect_to_ollama ==
    /\ boot = "connect_to_ollama"
    /\ \E ok \in BOOLEAN : ollama_client' = IF ok THEN "Client" ELSE "None"
    /\ boot' = "connect_to_elasticsearch"
    /\ UNCHANGED <<es_client, retries, frame, obs>>

\* connect_to_elasticsearch, up to the retry loop.
connect_to_elasticsearch ==
    /\ boot = "connect_to_elasticsearch"
    /\ es_client' = "Client"
    /\ retries' = ES_RETRIES
    /\ boot' = "es_retry_loop"
    /\ UNCHANGED <<ollama_client, frame, obs>>

\* One iteration of `while retries > 0`: info() answers, or fails.
es_info_attempt ==
    /\ boot = "es_retry_loop"
    /\ retries > 0
    /\ \E ok \in BOOLEAN :
         IF ok THEN boot' = "serving" /\ retries' = retries
               ELSE boot' = boot /\ retries' = retries - 1
    /\ UNCHANGED <<ollama_client, es_client, frame, obs>>

\* The loop ran out of retries: the client is dropped.
es_give_up ==
    /\ boot = "es_retry_loop"
    /\ retries = 0
    /\ es_client' = "None"
    /\ boot' = "serving"
    /\ UNCHANGED <<ollama_client, retries, frame, obs>>

(***************************************************************************)
(* HandleIncident: pieces                                                  *)
(***************************************************************************)
Message(role, content) == [role |-> role, content |-> content]

\* return agent_pb2.IncidentResponse(status=..., agent_response=...)
Return(f, status, text) ==
    [f EXCEPT !.pc = "done",
              !.response = [status |-> status, agent_response |-> text]]

\* Variant: the connection check lets a missing client through.
ClientMissingIgnored(client) == FALSE

\* `if not self.ollama_client`
ClientMissing(client) == client = "None"

\* Variant: the loop test is off by one.
LoopConditionOffByOne(f) == f.current_turn <= max_turns + 1

\* `while current_turn <= max_turns`
LoopCondition(f) == f.current_turn <= max_turns

\* Variant: the end of the loop does not look at the turn counter.
EndOfLoopAlwaysCompleted(f) == Return(f, "COMPLETED", f.final_summary)

\* "End of Loop": the status is decided by the turn counter alone.
EndOfLoop(f) ==
    IF f.current_turn > max_turns
    THEN Return([f EXCEPT !.final_summary =
                     "Agent reached max turns without full resolution."],
                "ERROR", "Agent reached max turns without full resolution.")
    ELSE Return(f, "COMPLETED", f.final_summary)

\* final_summary = ...; break
Break(f, summary) == EndOfLoop([f EXCEPT !.final_summary = summary])

\* Variant: there is no outer handler, the exception reaches the caller.
UnhandledEscapes(f, e) == [f EXCEPT !.pc = "raised"]

\* The outer `except Exception as e`.
Unhandled(f, e) ==
    Return(f, "ERROR", "Unhandled error in HandleIncident: " \o e)

AttributeErrorText(v) ==
    "'" \o py_type_name(v) \o "' object has no attribute 'get'"

\* Setup: derive the ids from request.full_event_json.  `raised` is the text
\* of an exception the inner `except json.JSONDecodeError` does not catch.
ParseEvent(full_event_json) ==
    LET parsed == json_loads(full_event_json)
    IN IF ~parsed.ok
       THEN [raised |-> "", user_id |-> JNull, order_id |-> JNull]
       ELSE IF parsed.value.type # "dict"
       THEN [raised |-> AttributeErrorText(parsed.value),
             user_id |-> JNull, order_id |-> JNull]
       ELSE [raised |-> "",
             user_id |-> dict_get(parsed.value, "user_id", JNull),
             order_id |-> dict_get(parsed.value, "order_id", JNull)]

\* Variant: JSON stays required after retry_payment.
ExpectationJsonAfterRetry(last_tool) ==
    IF last_tool = JStr("escalate_to_human") THEN "False" ELSE "True"

\* Variant: JSON is required on every turn.
ExpectationJsonAlways(last_tool) == "True"

\* The "revised expectation logic": True (JSON), None (either), False (text).
Expectation(last_tool) ==
    IF last_tool = JStr("retry_payment") THEN "None"
    ELSE IF last_tool = JStr("escalate_to_human") THEN "False"
    ELSE "True"

KnownTools ==
    {"get_payment_methods", "retry_payment", "query_knowledge_base",
     "escalate_to_human"}

\* Whether the if/elif chain that builds the prompt has a branch.
HasPrompt(f) ==
    \/ f.current_turn = 1
    \/ \E t \in KnownTools : f.last_tool_name_planned_in_prev_turn = JStr(t)

NoToolResultText == "{\"error\": \"Could not get previous tool result\"}"

\* Variant: the result is looked for in a user message.
LastToolResultFromUser(history) ==
    IF Len(history) > 0 /\ history[Len(history)].role = "user"
    THEN history[Len(history)].content
    ELSE NoToolResultText

\* conversation_history[-1]['content'] if it is a tool message, else the
\* fallback text.
LastToolResult(history) ==
    IF Len(history) > 0 /\ history[Len(history)].role = "tool"
    THEN history[Len(history)].content
    ELSE NoToolResultText

\* The prompt of the turn; the fixed wording of each template is shortened,
\* the interpolated values are kept.
PromptFor(f) ==
    IF f.current_turn = 1
    THEN "Turn 1: resolve '" \o f.request.event_type \o "' for order_id "
         \o py_str(f.order_id_from_event) \o ", user_id "
         \o py_str(f.user_id_from_event) \o ". Event Details: "
         \o f.request.full_event_json
    ELSE "Result of '" \o f.last_tool_name_planned_in_prev_turn.val \o "': "
         \o LastToolResult(f.conversation_history)
         \o (IF f.last_tool_name_planned_in_prev_turn \in
                  {JStr("get_payment_methods"), JStr("query_knowledge_base")}
             THEN " order_id (" \o py_str(f.order_id_from_event) \o ")"
             ELSE "")

\* Variant: a tool call is accepted only where text is not required.
IsToolCallUnlessTextRequired(tool_name, tool_args, expect_json) ==
    truthy(tool_name) /\ tool_args.type = "dict" /\ expect_json # "False"

\* `if tool_name and isinstance(tool_args, dict)`; the expectation of the
\* turn plays no part.
IsToolCall(tool_name, tool_args, expect_json) ==
    truthy(tool_name) /\ tool_args.type = "dict"

\* Variant: the incident's identifier wins over the model's.
BackfillOverwrites(tool_args, key, value) ==
    IF truthy(value) THEN dict_set(tool_args, key, value) ELSE tool_args

\* `if key not in tool_args and value: tool_args[key] = value`
Backfill(tool_args, key, value) ==
    IF ~dict_has(tool_args, key) /\ truthy(value)
    THEN dict_set(tool_args, key, value)
    ELSE tool_args

\* Variant: the chain has no final else; every name that is not one of the
\* first three is escalated.
ExecuteToolWithoutElse(f, tool_name, tool_args, es, env) ==
    IF tool_name \in {JStr("get_payment_methods"), JStr("retry_payment")}
    THEN LET args == Backfill(tool_args,
                              IF tool_name = JStr("get_payment_methods")
                              THEN "user_id" ELSE "order_id",
                              IF tool_name = JStr("get_payment_methods")
                              THEN f.user_id_from_event ELSE f.order_id_from_event)
         IN [tool_args |-> args, call |-> call_payment_tool(tool_name, args, env)]
    ELSE IF tool_name = JStr("query_knowledge_base")
    THEN [tool_args |-> tool_args,
          call |-> call_knowledge_base(es, dict_get(tool_args, "query", JStr("")),
                                       env)]
    ELSE LET args == Backfill(tool_args, "order_id", f.order_id_from_event)
         IN [tool_args |-> args,
             call |-> call_escalate_to_human(
                          dict_get(args, "order_id", JNull),
                          dict_get(args, "reason", JStr("Reason not specified")))]

\* Variant: the knowledge-base branch searches without looking at the
\* client.
ExecuteToolUncheckedSearch(f, tool_name, tool_args, es, env) ==
    IF tool_name = JStr("get_payment_methods")
    THEN LET args == Backfill(tool_args, "user_id", f.user_id_from_event)
         IN [tool_args |-> args, call |-> call_payment_tool(tool_name, args, env)]
    ELSE IF tool_name = JStr("retry_payment")
    THEN LET args == Backfill(tool_args, "order_id", f.order_id_from_event)
         IN [tool_args |-> args, call |-> call_payment_tool(tool_name, args, env)]
    ELSE IF tool_name = JStr("query_knowledge_base")
    THEN [tool_args |-> tool_args,
          call |-> call_knowledge_base("Client",
                                       dict_get(tool_args, "query", JStr("")), env)]
    ELSE IF tool_name = JStr("escalate_to_human")
    THEN LET args == Backfill(tool_args, "order_id", f.order_id_from_event)
         IN [tool_args |-> args,
             call |-> call_escalate_to_human(
                          dict_get(args, "order_id", JNull),
                          dict_get(args, "reason", JStr("Reason not specified")))]
    ELSE [tool_args |-> tool_args,
          call |-> Called(ErrorResult("Tool '" \o py_str(tool_name)
                                      \o "' execution not implemented."), 0, 0, 0)]

\* "Execute Tool": the if/elif chain on tool_name.  Yields the arguments as
\* left after backfill and the call made.
ExecuteTool(f, tool_name, tool_args, es, env) ==
    IF tool_name = JStr("get_payment_methods")
    THEN LET args == Backfill(tool_args, "user_id", f.user_id_from_event)
         IN [tool_args |-> args, call |-> call_payment_tool(tool_name, args, env)]
    ELSE IF tool_name = JStr("retry_payment")
    THEN LET args == Backfill(tool_args, "order_id", f.order_id_from_event)
         IN [tool_args |-> args, call |-> call_payment_tool(tool_name, args, env)]
    ELSE IF tool_name = JStr("query_knowledge_base")
    THEN [tool_args |-> tool_args,
          call |-> IF es = "None"
                   THEN Called(ErrorResult("Knowledge base (Elasticsearch) is unavailable."),
                               0, 0, 0)
                   ELSE call_knowledge_base(es, dict_get(tool_args, "query", JStr("")),
                                            env)]
    ELSE IF tool_name = JStr("escalate_to_human")
    THEN LET args == Backfill(tool_args, "order_id", f.order_id_from_event)
         IN [tool_args |-> args,
             call |-> call_escalate_to_human(
                          dict_get(args, "order_id", JNull),
                          dict_get(args, "reason", JStr("Reason not specified")))]
    ELSE [tool_args |-> tool_args,
          call |-> Called(ErrorResult("Tool '" \o py_str(tool_name)
                                      \o "' execution not implemented."), 0, 0, 0)]

(***************************************************************************)
(* HandleIncident: the steps of one invocation.  Each step is a function   *)
(* of the frame (and of what the environment answers) that yields the new  *)
(* frame, how the invocation ended if it did (`exit`), and the calls made. *)
(***************************************************************************)
Step(nf, exit, llm, tools, call) ==
    [frame |-> nf, exit |-> exit, iter |-> 0, llm |-> llm, tools |-> tools,
     call |-> call]

NoCall == Called(JNull, 0, 0, 0)

\* Entry, connection check and setup (up to the first loop test).
EnterOutcome(request, client) ==
    LET f0 == [IdleFrame EXCEPT
                 !.request = request,
                 !.final_summary = "Agent processing completed with errors."]
        ev == ParseEvent(request.full_event_json)
    IN IF ClientMissing(client)
       THEN Step(Return(f0, "ERROR", "Ollama client not initialized."),
                 "client_unavailable", 0, 0, NoCall)
       ELSE IF ev.raised # ""
       THEN Step(Unhandled(f0, ev.raised), "unhandled", 0, 0, NoCall)
       ELSE Step([f0 EXCEPT !.user_id_from_event = ev.user_id,
                            !.order_id_from_event = ev.order_id,
                            !.current_turn = 1,
                            !.last_tool_name_planned_in_prev_turn = JNull,
                            !.pc = "loop"],
                 "none", 0, 0, NoCall)

\* The loop test, the expectation, the prompt, and the user message.
BeginTurnOutcome(f) ==
    IF ~LoopCondition(f)
    THEN Step(EndOfLoop(f), "max_turns", 0, 0, NoCall)
    ELSE LET f1 == [f EXCEPT !.expect_json =
                        Expectation(f.last_tool_name_planned_in_prev_turn)]
         IN [iter |-> 1] @@
            (IF ~HasPrompt(f1)
             THEN Step(Break(f1, "Agent reached an unexpected state."),
                       "unexpected_state", 0, 0, NoCall)
             ELSE Step([f1 EXCEPT !.conversation_history =
                                     Append(@, Message("user", PromptFor(f1))),
                                  !.pc = "llm"],
                       "none", 0, 0, NoCall))

\* What ollama_client.chat may do: answer with a text, or raise.
ChatResults ==
    [ok : {TRUE}, content : LLMOutputs]
        \cup {[ok |-> FALSE, content |-> "Connection refused"]}

\* Variant: the answer is not appended to the history.
CallLLMOutcomeNoAssistantMessage(f, chat) ==
    IF ~chat.ok
    THEN Step(Break(f, "Error communicating with LLM: " \o chat.content),
              "llm_error", 1, 0, NoCall)
    ELSE Step([f EXCEPT !.llm_response_str = chat.content, !.pc = "process"],
              "none", 1, 0, NoCall)

\* "Call LLM": the chat call and the assistant message.
CallLLMOutcome(f, chat) ==
    IF ~chat.ok
    THEN Step(Break(f, "Error communicating with LLM: " \o chat.content),
              "llm_error", 1, 0, NoCall)
    ELSE Step([f EXCEPT !.llm_response_str = chat.content,
                        !.conversation_history =
                            Append(@, Message("assistant", chat.content)),
                        !.pc = "process"],
              "none", 1, 0, NoCall)

\* Variant: the turn counter advances by two.
NextTurnSkipsOne(f, call) ==
    IF ~f.tool_executed_this_turn
    THEN Step(Break(f, "Agent loop error."), "loop_error", 0, 0, call)
    ELSE Step([f EXCEPT !.current_turn = @ + 2, !.pc = "loop"],
              "none", 0, 1, call)

\* Variant: the test of the guard is inverted.
NextTurnGuardInverted(f, call) ==
    IF f.tool_executed_this_turn
    THEN Step(Break(f, "Agent loop error."), "loop_error", 0, 0, call)
    ELSE Step([f EXCEPT !.current_turn = @ + 1, !.pc = "loop"],
              "none", 0, 1, call)

\* "Check if we should move to the next turn" and `current_turn += 1`.
NextTurn(f, call) ==
    IF ~f.tool_executed_this_turn
    THEN Step(Break(f, "Agent loop error."), "loop_error", 0, 0, call)
    ELSE Step([f EXCEPT !.current_turn = @ + 1, !.pc = "loop"],
              "none", 0, 1, call)

\* "Process LLM Response": classification, tool execution, tool message.
ProcessOutcome(f, es, env) ==
    LET f1 == [f EXCEPT !.last_tool_name_planned_in_prev_turn = JNull,
                        !.tool_executed_this_turn = FALSE]
        llm_decision == json_loads(f.llm_response_str)
    IN IF ~llm_decision.ok
       THEN IF f.expect_json = "True"
            THEN Step(Break(f1, "LLM failed to provide expected JSON tool call."),
                      "format_error", 0, 0, NoCall)
            ELSE Step(Break(f1, f.llm_response_str), "final_answer", 0, 0, NoCall)
       ELSE IF llm_decision.value.type # "dict"
       THEN Step(Unhandled(f1, AttributeErrorText(llm_decision.value)),
                 "unhandled", 0, 0, NoCall)
       ELSE LET tool_name == dict_get(llm_decision.value, "tool_name", JNull)
                tool_args == dict_get(llm_decision.value, "tool_args", JNull)
                f2 == [f1 EXCEPT !.tool_name = tool_name, !.tool_args = tool_args]
            IN IF ~IsToolCall(tool_name, tool_args, f.expect_json)
               THEN Step(Break(f2, f.llm_response_str), "final_answer", 0, 0, NoCall)
               ELSE LET ex == ExecuteTool(f2, tool_name, tool_args, es, env)
                        f3 == [f2 EXCEPT
                                 !.last_tool_name_planned_in_prev_turn = tool_name,
                                 !.tool_args = ex.tool_args,
                                 !.tool_result = ex.call.tool_result,
                                 !.conversation_history =
                                     Append(@, Message("tool",
                                               json_dumps(ex.call.tool_result))),
                                 !.tool_executed_this_turn = TRUE]
                    IN NextTurn(f3, ex.call)

\* "Call LLM" and "Process LLM Response" in sequence: the rest of the
\* iteration after the prompt was appended.
CompleteTurnOutcome(f, chat, es, env) ==
    LET called == CallLLMOutcome(f, chat)
        processed == ProcessOutcome(called.frame, es, env)
    IN IF called.frame.pc = "done"
       THEN called
       ELSE [processed EXCEPT !.llm = called.llm]

(***************************************************************************)
(* HandleIncident: actions                                                 *)
(***************************************************************************)
\* How many collaborator failures one incident may meet.
MaxFaults == 1

\* A failure of the environment that the call ran into.
FaultMet(step, env) ==
    IF Faulty(env) /\ step.call.posts + step.call.searches > 0 THEN 1 ELSE 0

\* The observation of worker w after a step.
Observed(o, step, env) ==
    [o EXCEPT !.llm_calls = @ + step.llm,
              !.tool_calls = @ + step.tools,
              !.payment_posts = @ + step.call.posts,
              !.es_searches = @ + step.call.searches,
              !.tickets = @ + step.call.tickets,
              !.faults = @ + FaultMet(step, env),
              !.last_call = step.call,
              !.last_env = IF step.call.posts + step.call.searches > 0
                           THEN env ELSE @,
              !.returns = @ + (IF step.frame.pc = "done" THEN 1 ELSE 0),
              !.exit = IF step.exit # "none" THEN step.exit ELSE @]

NoEnv == Env("up", "active", "hit")

\* Variant: the tool planned in the previous turn is kept on the service
\* object, which all workers share.
TakeSharedPlannedTool(w, step, env) ==
    /\ obs[w].faults + FaultMet(step, env) <= MaxFaults
    /\ frame' = [v \in DOMAIN frame |->
                   IF v = w THEN step.frame
                   ELSE [frame[v] EXCEPT !.last_tool_name_planned_in_prev_turn =
                             step.frame.last_tool_name_planned_in_prev_turn]]
    /\ obs' = [obs EXCEPT ![w] = Observed(@, step, env)]
    /\ UNCHANGED <<boot, ollama_client, es_client, retries>>

Take(w, step, env) ==
    /\ obs[w].faults + FaultMet(step, env) <= MaxFaults
    /\ frame' = [frame EXCEPT ![w] = step.frame]
    /\ obs' = [obs EXCEPT ![w] = Observed(@, step, env)]
    /\ UNCHANGED <<boot, ollama_client, es_client, retries>>

HandleIncident(w) ==
    /\ boot = "serving"
    /\ frame[w].pc = "idle"
    /\ \E et \in EventTypes, fej \in FullEventJsons :
         LET step == EnterOutcome([event_type |-> et, full_event_json |-> fej],
                                  ollama_client)
         IN /\ frame' = [frame EXCEPT ![w] = step.frame]
            /\ obs' = [obs EXCEPT ![w] =
                         [Observed(IdleObs, step, NoEnv) EXCEPT
                            !.history_created = step.exit # "client_unavailable"]]
    /\ UNCHANGED <<boot, ollama_client, es_client, retries>>

BeginTurn(w) ==
    /\ frame[w].pc = "loop"
    /\ LET step == BeginTurnOutcome(frame[w])
       IN /\ frame' = [frame EXCEPT ![w] = step.frame]
          /\ obs' = [obs EXCEPT ![w] =
                       [Observed(@, step, NoEnv) EXCEPT
                          !.iterations = @ + step.iter]]
    /\ UNCHANGED <<boot, ollama_client, es_client, retries>>

CompleteTurn(w) ==
    /\ frame[w].pc = "llm"
    /\ \E chat \in ChatResults, env \in Envs :
         Take(w, CompleteTurnOutcome(frame[w], chat, es_client, env), env)

\* The response is handed to the gRPC layer; the worker is free again.
ReturnToCaller(w) ==
    /\ frame[w].pc = "done"
    /\ frame' = [frame EXCEPT ![w] = IdleFrame]
    /\ obs' = [obs EXCEPT ![w] = IdleObs]
    /\ UNCHANGED <<boot, ollama_client, es_client, retries>>

Next ==
    \/ connect_to_ollama
    \/ connect_to_elasticsearch
    \/ es_info_attempt
    \/ es_give_up
    \/ \E w \in Workers : HandleIncident(w)
    \/ \E w \in Workers : BeginTurn(w)
    \/ \E w \in Workers : CompleteTurn(w)
    \/ \E w \in Workers : ReturnToCaller(w)

Spec == Init /\ [][Next]_vars

(***************************************************************************)
(* The same service with a model that names identifiers that are not       *)
(* numbers.                                                                *)
(***************************************************************************)
IdChatResults ==
    [ok : {TRUE}, content : IdLLMOutputs]
        \cup {[ok |-> FALSE, content |-> "Connection refused"]}

CompleteTurnIds(w) ==
    /\ frame[w].pc = "llm"
    /\ \E chat \in IdChatResults, env \in Envs :
         Take(w, CompleteTurnOutcome(frame[w], chat, es_client, env), env)

NextIds ==
    \/ connect_to_ollama
    \/ connect_to_elasticsearch
    \/ es_info_attempt
    \/ es_give_up
    \/ \E w \in Workers : HandleIncident(w)
    \/ \E w \in Workers : BeginTurn(w)
    \/ \E w \in Workers : CompleteTurnIds(w)
    \/ \E w \in Workers : ReturnToCaller(w)

SpecIds == Init /\ [][NextIds]_vars

(***************************************************************************)
(* The same service with a model that sometimes names the identifier       *)
(* itself and sometimes leaves it to the dispatcher, against collaborators *)
(* that are up.                                                            *)
(***************************************************************************)
BackfillChatResults ==
    [ok : {TRUE}, content : BackfillLLMOutputs]
        \cup {[ok |-> FALSE, content |-> "Connection refused"]}

CompleteTurnBackfill(w) ==
    /\ frame[w].pc = "llm"
    /\ \E chat \in BackfillChatResults :
         Take(w, CompleteTurnOutcome(frame[w], chat, es_client, NoEnv), NoEnv)

NextBackfill ==
    \/ connect_to_ollama
    \/ connect_to_elasticsearch
    \/ es_info_attempt
    \/ es_give_up
    \/ \E w \in Workers : HandleIncident(w)
    \/ \E w \in Workers : BeginTurn(w)
    \/ \E w \in Workers : CompleteTurnBackfill(w)
    \/ \E w \in Workers : ReturnToCaller(w)

SpecBackfill == Init /\ [][NextBackfill]_vars

(***************************************************************************)
(* The same service handling two incidents at a time: two threads of the   *)
(* pool run HandleIncident on the one AgentService object.                 *)
(***************************************************************************)
ConcWorkers == {"w1", "w2"}

ConcToolCallOutputs ==
    { Envelope(JStr("get_payment_methods"), JDict(<<>>)),
      Envelope(JStr("retry_payment"),
               JDict(<< <<"payment_method_id", JStr("card_B_paypal")>> >>)) }
ConcLLMOutputs == TextOutputs \cup {json_dumps(v) : v \in ConcToolCallOutputs}
ConcChatResults ==
    [ok : {TRUE}, content : ConcLLMOutputs]
        \cup {[ok |-> FALSE, content |-> "Connection refused"]}

\* The service object as AgentService() returns it: both connect methods
\* have run, the search client was reached at the first attempt or dropped
\* after the last.
InitConc ==
    /\ boot = "serving"
    /\ ollama_client \in {"Client", "None"}
    /\ \/ es_client = "Client" /\ retries = ES_RETRIES
       \/ es_client = "None" /\ retries = 0
    /\ frame = [w \in ConcWorkers |-> IdleFrame]
    /\ obs = [w \in ConcWorkers |-> IdleObs]

CompleteTurnConc(w) ==
    /\ frame[w].pc = "llm"
    /\ \E chat \in ConcChatResults :
         Take(w, CompleteTurnOutcome(frame[w], chat, es_client, NoEnv), NoEnv)

NextConc ==
    \/ \E w \in ConcWorkers : HandleIncident(w)
    \/ \E w \in ConcWorkers : BeginTurn(w)
    \/ \E w \in ConcWorkers : CompleteTurnConc(w)
    \/ \E w \in ConcWorkers : ReturnToCaller(w)

SpecConc == InitConc /\ [][NextConc]_vars

(***************************************************************************)
(* Properties                                                              *)
(***************************************************************************)
MaxTurnsText == "Agent reached max turns without full resolution."
FormatErrorText == "LLM failed to provide expected JSON tool call."
UnexpectedStateText == "Agent reached an unexpected state."
NoClientText == "Ollama client not initialized."

Ended(w) == frame[w].pc = "done"
Status(w) == frame[w].response.status
Summary(w) == frame[w].response.agent_response

LastRole(w) ==
    LET h == frame[w].conversation_history
    IN IF Len(h) = 0 THEN "" ELSE h[Len(h)].role

\* The model's output of the current turn has been processed: either the
\* invocation ended on it, or its tool call ran and the next turn is due.
\* frame[w].llm_response_str and frame[w].expect_json are then that turn's.
Answered(w) ==
    \/ Ended(w) /\ LastRole(w) = "assistant"
    \/ frame[w].pc = "loop" /\ frame[w].current_turn > 1

\* A text that parses as a JSON object with a string tool_name and a
\* mapping tool_args.
IsEnvelopeText(text) ==
    LET p == json_loads(text)
    IN /\ p.ok
       /\ p.value.type = "dict"
       /\ dict_get(p.value, "tool_name", JNull).type = "str"
       /\ dict_get(p.value, "tool_args", JNull).type = "dict"

ToolNameOf(text) == dict_get(json_loads(text).value, "tool_name", JNull)

\* The turn's tool call ran: its name is recorded for the next turn and its
\* result is the last message.
Dispatched(w) ==
    /\ frame[w].pc = "loop"
    /\ frame[w].current_turn > 1
    /\ frame[w].tool_executed_this_turn
    /\ LastRole(w) = "tool"
    /\ frame[w].last_tool_name_planned_in_prev_turn
          = ToolNameOf(frame[w].llm_response_str)

FinalAnswered(w) ==
    /\ Ended(w)
    /\ Status(w) = "COMPLETED"
    /\ Summary(w) = frame[w].llm_response_str

\* C1: when the output of a REQUIRE_JSON turn does not parse as JSON
\* (FormatError), the invocation ends at that turn with status ERROR and the
\* format-mismatch summary.
C1_FormatErrorIsError ==
    \A w \in Workers :
        (Ended(w) /\ obs[w].exit = "format_error")
            => Status(w) = "ERROR" /\ Summary(w) = FormatErrorText

\* C2: when the model call raises, the invocation ends with status ERROR and
\* a summary that includes the failure.
C2_ModelFailureIsError ==
    \A w \in Workers :
        (Ended(w) /\ obs[w].exit = "llm_error")
            => /\ Status(w) = "ERROR"
               /\ Summary(w) = "Error communicating with LLM: Connection refused"

\* C3: when a turn after the first starts with a last planned tool that is
\* none of the four tools, the invocation ends there, without a model call,
\* with status ERROR and the unexpected-state summary.
C3_UnexpectedStateIsError ==
    \A w \in Workers :
        (Ended(w) /\ obs[w].exit = "unexpected_state")
            => Status(w) = "ERROR" /\ Summary(w) = UnexpectedStateText

\* C4: an invocation runs at most max_turns iterations of the loop, invokes
\* the model at most max_turns times and executes at most max_turns tool
\* calls.
C4_LoopBounded ==
    \A w \in Workers :
        /\ obs[w].iterations <= max_turns
        /\ obs[w].llm_calls <= max_turns
        /\ obs[w].tool_calls <= max_turns
        /\ frame[w].current_turn <= max_turns + 1

C4_Witness ==
    \E w \in Workers :
        /\ Ended(w)
        /\ obs[w].iterations = max_turns
        /\ obs[w].llm_calls = max_turns
        /\ obs[w].tool_calls = max_turns

\* C5: every invocation returns exactly one outcome, no failure escapes to
\* the caller, the status is ACKNOWLEDGED, COMPLETED or ERROR, and an ERROR
\* outcome has a non-empty summary.
C5_OneWellFormedOutcome ==
    \A w \in Workers :
        /\ frame[w].pc \in {"idle", "loop", "llm", "done"}
        /\ obs[w].returns = (IF Ended(w) THEN 1 ELSE 0)
        /\ ~Ended(w) => frame[w].response = NoResponse
        /\ Ended(w) =>
             /\ Status(w) \in {"ACKNOWLEDGED", "COMPLETED", "ERROR"}
             /\ Status(w) = "ERROR" => Summary(w) # ""

C5_Witness ==
    \E w \in Workers :
        /\ Ended(w)
        /\ obs[w].exit = "unhandled"
        /\ obs[w].llm_calls > 0
        /\ Status(w) = "ERROR"

\* C6: once five turns have each executed a tool call, no sixth turn runs and
\* the invocation returns ERROR with the max-turns summary.
C6_FiveToolTurnsEndInError ==
    \A w \in Workers :
        obs[w].tool_calls = max_turns =>
            /\ obs[w].iterations = max_turns
            /\ obs[w].llm_calls = max_turns
            /\ \/ frame[w].pc = "loop" /\ frame[w].current_turn = max_turns + 1
               \/ Ended(w) /\ Status(w) = "ERROR" /\ Summary(w) = MaxTurnsText

C6_Witness ==
    \E w \in Workers :
        /\ Ended(w)
        /\ obs[w].tool_calls = max_turns
        /\ obs[w].exit = "max_turns"

\* C7: with no model client, an invocation returns ERROR with the
\* client-unavailable summary and runs no turn: no history, no model call, no
\* tool collaborator contacted.
C7_NoClientNoTurns ==
    \A w \in Workers :
        (boot = "serving" /\ ollama_client = "None" /\ frame[w].pc # "idle") =>
            /\ Ended(w)
            /\ Status(w) = "ERROR"
            /\ Summary(w) = NoClientText
            /\ ~obs[w].history_created
            /\ frame[w].conversation_history = <<>>
            /\ obs[w].iterations = 0
            /\ obs[w].llm_calls = 0
            /\ obs[w].tool_calls = 0
            /\ obs[w].payment_posts + obs[w].es_searches + obs[w].tickets = 0

C7_Witness ==
    \E w \in Workers :
        ollama_client = "None" /\ Ended(w) /\ obs[w].exit = "client_unavailable"

\* C8: on an ALLOW_EITHER or REQUIRE_TEXT turn, every output that is not a
\* tool-call envelope (not JSON, or JSON of any kind without a string
\* tool_name and a mapping tool_args) ends the invocation with status
\* COMPLETED and the raw text as summary.
C8_NonEnvelopeIsFinalAnswer ==
    \A w \in Workers :
        ( /\ Answered(w)
          /\ frame[w].expect_json \in {"None", "False"}
          /\ ~IsEnvelopeText(frame[w].llm_response_str) )
            => FinalAnswered(w)

\* C9, as stated: an output that parses as a JSON object with a string
\* tool_name and a mapping tool_args is dispatched as a tool call under every
\* expectation.
C9_EnvelopeAlwaysDispatched ==
    \A w \in Workers :
        (Answered(w) /\ IsEnvelopeText(frame[w].llm_response_str))
            => Dispatched(w) /\ obs[w].exit = "none"

\* C9, amended: an output that parses as a JSON object with a non-empty
\* string tool_name and a mapping tool_args is dispatched as a tool call
\* under every expectation, REQUIRE_TEXT and ALLOW_EITHER included; it is
\* never a FinalAnswer or a FormatError.
C9_NamedEnvelopeAlwaysDispatched ==
    \A w \in Workers :
        ( /\ Answered(w)
          /\ IsEnvelopeText(frame[w].llm_response_str)
          /\ ToolNameOf(frame[w].llm_response_str).val # "" )
            => Dispatched(w) /\ obs[w].exit = "none"

C9_Witness ==
    \E w \in Workers :
        /\ Dispatched(w)
        /\ IsEnvelopeText(frame[w].llm_response_str)
        /\ frame[w].expect_json = "False"

\* C10: on a REQUIRE_JSON turn, an output that parses as JSON but is not a
\* tool-call envelope ends the invocation with status COMPLETED and the raw
\* text as summary.
C10_JsonNonEnvelopeIsFinalAnswer ==
    \A w \in Workers :
        ( /\ Answered(w)
          /\ frame[w].expect_json = "True"
          /\ json_loads(frame[w].llm_response_str).ok
          /\ ~IsEnvelopeText(frame[w].llm_response_str) )
            => FinalAnswered(w)

\* The transition table of the expectation policy: REQUIRE_JSON is "True",
\* ALLOW_EITHER is "None", REQUIRE_TEXT is "False".
ExpectationTable(last_tool) ==
    CASE last_tool = JNull -> "True"
      [] last_tool = JStr("get_payment_methods") -> "True"
      [] last_tool = JStr("retry_payment") -> "None"
      [] last_tool = JStr("query_knowledge_base") -> "True"
      [] last_tool = JStr("escalate_to_human") -> "False"
      [] OTHER -> "unmapped"

\* C11: in every turn in which the model is invoked the expectation is the
\* one the table gives for the tool planned in the preceding turn (none on
\* turn 1), and for nothing else.
C11_ExpectationFollowsTable ==
    \A w \in Workers :
        frame[w].pc = "llm" =>
            /\ frame[w].expect_json =
                   ExpectationTable(frame[w].last_tool_name_planned_in_prev_turn)
            /\ frame[w].current_turn = 1 =>
                   frame[w].last_tool_name_planned_in_prev_turn = JNull
            /\ frame[w].current_turn > 1 =>
                   frame[w].last_tool_name_planned_in_prev_turn
                       = ToolNameOf(frame[w].llm_response_str)

C11_Witness ==
    \E w \in Workers :
        /\ frame[w].pc = "llm"
        /\ frame[w].current_turn > 1
        /\ frame[w].last_tool_name_planned_in_prev_turn = JStr("retry_payment")
        /\ frame[w].expect_json = "None"

\* The tool call of the turn just completed by worker w.
ToolTurnDone(w) == frame[w].pc = "loop" /\ frame[w].current_turn > 1

\* The collaborator of that tool call failed: the payment service was
\* unreachable or answered with an error status (422 for arguments that do
\* not fit its request model, 503), the search client is missing, or the
\* search raised.
ToolFailed(w) ==
    LET f == frame[w]
        env == obs[w].last_env
    IN \/ /\ f.tool_name = JStr("get_payment_methods")
          /\ \/ env.net = "down"
             \/ get_payment_methods(f.tool_args, env.db).status_code >= 400
       \/ /\ f.tool_name = JStr("retry_payment")
          /\ \/ env.net = "down"
             \/ retry_payment(f.tool_args).status_code >= 400
       \/ /\ f.tool_name = JStr("query_knowledge_base")
          /\ es_client = "None" \/ env.search = "error"

LastMessage(w) ==
    frame[w].conversation_history[Len(frame[w].conversation_history)]

\* C12: a failing tool invocation is never fatal: its result has an error
\* key, is appended as the tool message, the tool's name is recorded for the
\* next turn, and the next turn runs if the turn budget allows; no invocation
\* ends in the step that contacted a collaborator.
C12_ToolFailureNotFatal ==
    \A w \in Workers :
        /\ Ended(w) =>
             obs[w].last_call.posts + obs[w].last_call.searches
                 + obs[w].last_call.tickets = 0
        /\ (ToolTurnDone(w) /\ ToolFailed(w)) =>
             /\ dict_has(frame[w].tool_result, "error")
             /\ LastMessage(w) = Message("tool", json_dumps(frame[w].tool_result))
             /\ frame[w].last_tool_name_planned_in_prev_turn = frame[w].tool_name
             /\ obs[w].exit = "none"
             /\ LoopCondition(frame[w]) =>
                    BeginTurnOutcome(frame[w]).frame.pc = "llm"

C12_Witness ==
    \E w \in Workers :
        /\ ToolTurnDone(w)
        /\ ToolFailed(w)
        /\ obs[w].last_env.net = "down"
        /\ dict_has(frame[w].tool_result, "error")
        /\ LoopCondition(frame[w])

\* C13: a tool call whose name is none of the four tools yields an error
\* result, and no payment, knowledge-base or escalation collaborator is
\* contacted in that turn.
C13_UnknownToolContactsNobody ==
    \A w \in Workers :
        ( /\ ToolTurnDone(w)
          /\ \A t \in KnownTools : frame[w].tool_name # JStr(t) )
            => /\ dict_has(frame[w].tool_result, "error")
               /\ obs[w].last_call.tool_result = frame[w].tool_result
               /\ obs[w].last_call.posts = 0
               /\ obs[w].last_call.searches = 0
               /\ obs[w].last_call.tickets = 0

C13_Witness ==
    \E w \in Workers :
        /\ ToolTurnDone(w)
        /\ frame[w].tool_name = JStr("refund_order")
        /\ obs[w].tool_calls = 2
        /\ obs[w].payment_posts = 1

KbUnavailableText == "Knowledge base (Elasticsearch) is unavailable."

\* C14: when the search client is None after start-up (the five attempts of
\* connect_to_elasticsearch all failed), every query_knowledge_base call of
\* every incident yields the unavailable error and the index is never
\* searched.
C14_NoSearchClientNoSearch ==
    (boot = "serving" /\ es_client = "None") =>
        /\ retries = 0
        /\ \A w \in Workers :
             /\ obs[w].es_searches = 0
             /\ (ToolTurnDone(w) /\ frame[w].tool_name = JStr("query_knowledge_base"))
                  => /\ frame[w].tool_result = ErrorResult(KbUnavailableText)
                     /\ LastMessage(w) =
                            Message("tool", json_dumps(ErrorResult(KbUnavailableText)))
                     /\ obs[w].last_call.searches = 0

C14_Witness ==
    \E w \in Workers :
        /\ boot = "serving"
        /\ es_client = "None"
        /\ ToolTurnDone(w)
        /\ frame[w].tool_name = JStr("query_knowledge_base")
        /\ frame[w].tool_result = ErrorResult(KbUnavailableText)

HistoryLen(w) == Len(frame[w].conversation_history)

\* C15, as stated: every iteration that appends to the history, one in which
\* the model call fails included, appends a user and an assistant message,
\* plus a tool message iff a tool call was executed; after k such iterations
\* the length is 2k plus the number of executed tool calls.
C15_TwoMessagesPerIteration ==
    \A w \in Workers :
        frame[w].pc \in {"loop", "done"} =>
            HistoryLen(w) = 2 * obs[w].llm_calls + obs[w].tool_calls

\* The length of the history between iterations and at the end: an iteration
\* whose model call failed has appended its user message only.
HistoryCount(w) ==
    /\ frame[w].pc \in {"loop", "done"} =>
         HistoryLen(w) = 2 * obs[w].llm_calls + obs[w].tool_calls
                           - (IF obs[w].exit = "llm_error" THEN 1 ELSE 0)
    /\ frame[w].pc = "llm" =>
         HistoryLen(w) = 2 * obs[w].llm_calls + obs[w].tool_calls + 1

\* One step of an invocation leaves the messages already there as they are
\* and appends nothing, a user message, an assistant message, or an
\* assistant and a tool message; the last iff the step executed a tool call.
AppendOnly(w) ==
    LET h == frame[w].conversation_history
        h2 == frame'[w].conversation_history
        added == [i \in 1..(Len(h2) - Len(h)) |-> h2[Len(h) + i].role]
    IN \/ frame[w].pc = "idle"
       \/ frame'[w].pc = "idle"
       \/ /\ Len(h2) >= Len(h)
          /\ SubSeq(h2, 1, Len(h)) = h
          /\ IF frame[w].pc = "loop"
             THEN added \in {<<>>, <<"user">>}
             ELSE added \in {<<>>, <<"assistant">>, <<"assistant", "tool">>}
          /\ added = <<"assistant", "tool">>
                <=> obs'[w].tool_calls = obs[w].tool_calls + 1
          /\ added = <<>> /\ frame[w].pc = "llm"
                <=> obs'[w].exit = "llm_error"

\* C15, amended: the history is append-only; an iteration in which the model
\* call returns appends one user and one assistant message, plus one tool
\* message iff a tool call was executed; an iteration in which the model call
\* fails appends its user message only.  After k iterations that appended,
\* the length is 2k plus the number of executed tool calls, less one if the
\* model call of the last one failed.
C15_HistoryGrowth ==
    /\ [](\A w \in Workers : HistoryCount(w))
    /\ [][\A w \in Workers : AppendOnly(w)]_vars

C15_Witness ==
    \E w \in Workers :
        /\ Ended(w)
        /\ obs[w].exit = "llm_error"
        /\ obs[w].llm_calls = 3
        /\ obs[w].tool_calls = 2
        /\ HistoryLen(w) = 7

\* current_turn is set to 1 by the setup, and afterwards changes only by +1,
\* in the step that executed a tool call.
TurnStep(w) ==
    \/ frame'[w].pc = "idle"
    \/ /\ frame[w].pc = "idle"
       /\ frame'[w].pc = "loop" => frame'[w].current_turn = 1
       /\ frame'[w].pc # "loop" => frame'[w].current_turn = 0
    \/ /\ frame[w].pc # "idle"
       /\ frame'[w].current_turn = frame[w].current_turn
       /\ obs'[w].tool_calls = obs[w].tool_calls
    \/ /\ frame[w].pc = "llm"
       /\ frame'[w].pc = "loop"
       /\ frame'[w].current_turn = frame[w].current_turn + 1
       /\ obs'[w].tool_calls = obs[w].tool_calls + 1

\* current_turn is at least 1 and at most `bound` while the loop runs.
TurnRange(w, bound) ==
    frame[w].pc \in {"loop", "llm"} =>
        frame[w].current_turn >= 1 /\ frame[w].current_turn <= bound

\* C16, as stated: current_turn starts at 1, changes only by +1 at the end
\* of an iteration that executed a tool call, and never exceeds max_turns.
C16_TurnNeverExceedsMax ==
    \A w \in Workers :
        /\ TurnRange(w, max_turns)
        /\ frame[w].pc \in {"loop", "llm"} =>
               frame[w].current_turn = 1 + obs[w].tool_calls

\* C16, amended: current_turn starts at 1, changes only by +1 at the end of
\* an iteration that executed a tool call, and never exceeds max_turns + 1;
\* it is at most max_turns in every iteration of the loop, and max_turns + 1
\* only after the fifth tool call, when the loop is left.
C16_TurnAtMostMaxPlusOne ==
    /\ [](\A w \in Workers :
            /\ TurnRange(w, max_turns + 1)
            /\ frame[w].current_turn <= max_turns + 1
            /\ frame[w].pc = "llm" => frame[w].current_turn <= max_turns
            /\ frame[w].current_turn = max_turns + 1 =>
                   obs[w].tool_calls = max_turns)
    /\ [][\A w \in Workers : TurnStep(w)]_vars

C16_Witness ==
    \E w \in Workers :
        /\ frame[w].pc = "loop"
        /\ frame[w].current_turn = max_turns + 1
        /\ obs[w].tool_calls = max_turns

\* The payload of worker w's incident parses as a JSON object.
PayloadIsObject(w) ==
    LET p == json_loads(frame[w].request.full_event_json)
    IN p.ok /\ p.value.type = "dict"

\* C17: whatever the payload (not JSON, a JSON object, JSON that is not an
\* object), deriving the ids does not end the invocation: when they cannot
\* be extracted both are absent, turn 1 is entered and the model is invoked.
C17_PayloadNeverAborts ==
    \A w \in Workers :
        (frame[w].pc # "idle" /\ obs[w].exit # "client_unavailable") =>
            /\ ~PayloadIsObject(w) =>
                   /\ frame[w].user_id_from_event = JNull
                   /\ frame[w].order_id_from_event = JNull
            /\ Ended(w) => obs[w].iterations >= 1 /\ obs[w].llm_calls >= 1

\* The text is a tool call whose user_id or order_id argument is a string
\* that is not a number.
HasNonNumericId(text) ==
    /\ IsEnvelopeText(text)
    /\ \E k \in {"user_id", "order_id"} :
         LET v == dict_get(dict_get(json_loads(text).value, "tool_args", JNull),
                           k, JNull)
         IN v.type = "str" /\ v.val \notin NumericStrings

\* C18: when the model supplies a non-numeric user_id or order_id, the turn
\* is fatal: the invocation ends with status ERROR (and a summary naming the
\* value), and no further turn runs.
C18_BadIdIsFatal ==
    \A w \in Workers :
        (Answered(w) /\ HasNonNumericId(frame[w].llm_response_str)) =>
            /\ Ended(w)
            /\ Status(w) = "ERROR"
            /\ obs[w].last_call.posts + obs[w].last_call.tickets = 0

\* The argument that the dispatcher fills in for a tool, and the incident's
\* field it is filled from.
BackfilledTools ==
    {JStr("get_payment_methods"), JStr("retry_payment"), JStr("escalate_to_human")}
BackfillKey(tool_name) ==
    IF tool_name = JStr("get_payment_methods") THEN "user_id" ELSE "order_id"
DerivedField(w, tool_name) ==
    IF tool_name = JStr("get_payment_methods")
    THEN frame[w].user_id_from_event
    ELSE frame[w].order_id_from_event

\* The arguments as the model wrote them in the current turn.
SuppliedArgs(w) ==
    dict_get(json_loads(frame[w].llm_response_str).value, "tool_args", JNull)

\* The current turn dispatched one of the three tools with a filled-in
\* argument.
BackfillDispatched(w) ==
    /\ Dispatched(w)
    /\ IsEnvelopeText(frame[w].llm_response_str)
    /\ ToolNameOf(frame[w].llm_response_str) \in BackfilledTools

\* An earlier turn's call, as it read after the dispatcher filled it in, is
\* what the model wrote in the current turn.
Redispatched(w) ==
    LET h == frame[w].conversation_history
        name == ToolNameOf(frame[w].llm_response_str)
        key == BackfillKey(name)
    IN \E i \in 1..Len(h) :
         /\ h[i].role = "assistant"
         /\ IsEnvelopeText(h[i].content)
         /\ ToolNameOf(h[i].content) = name
         /\ LET first == dict_get(json_loads(h[i].content).value, "tool_args", JNull)
            IN /\ ~dict_has(first, key)
               /\ SuppliedArgs(w)
                    = JDict(Append(first.items, <<key, DerivedField(w, name)>>))

\* C19: backfill never overwrites a model-supplied argument.  After the
\* dispatch of get_payment_methods (user_id), retry_payment (order_id) or
\* escalate_to_human (order_id): a key the model supplied keeps its value and
\* the arguments are exactly the model's, also when they are an earlier
\* call's already filled arguments; the arguments differ from the model's
\* only by the absent key, appended with the incident's derived value.
C19_BackfillKeepsSuppliedArgs ==
    \A w \in Workers :
        BackfillDispatched(w) =>
            LET name == ToolNameOf(frame[w].llm_response_str)
                key == BackfillKey(name)
                supplied == SuppliedArgs(w)
                now == frame[w].tool_args
            IN /\ dict_has(supplied, key) => now = supplied
               /\ \A i \in 1..Len(supplied.items) : now.items[i] = supplied.items[i]
               /\ now # supplied =>
                    /\ ~dict_has(supplied, key)
                    /\ truthy(DerivedField(w, name))
                    /\ now = JDict(Append(supplied.items,
                                          <<key, DerivedField(w, name)>>))

\* An already filled call was dispatched again, in an incident where an
\* earlier call carried an identifier of the model's own that differs from
\* the incident's.
C19_Witness ==
    \E w \in Workers :
        /\ BackfillDispatched(w)
        /\ Redispatched(w)
        /\ frame[w].tool_args = SuppliedArgs(w)
        /\ \E j \in 1..Len(frame[w].conversation_history) :
             LET m == frame[w].conversation_history[j]
             IN /\ m.role = "assistant"
                /\ IsEnvelopeText(m.content)
                /\ ToolNameOf(m.content) = JStr("retry_payment")
                /\ dict_get(dict_get(json_loads(m.content).value, "tool_args", JNull),
                            "order_id", JNull)
                     \notin {JNull, frame[w].order_id_from_event}

\* What an invocation running alone does next from the locals f: a
\* function of f, of the two clients of the service, and of what the model
\* and the tools answer.
SoloSuccessor(f, g) ==
    \/ /\ f.pc = "idle"
       /\ \E et \in EventTypes, fej \in FullEventJsons :
            g = EnterOutcome([event_type |-> et, full_event_json |-> fej],
                             ollama_client).frame
    \/ f.pc = "loop" /\ g = BeginTurnOutcome(f).frame
    \/ /\ f.pc = "llm"
       /\ \E chat \in ConcChatResults :
            g = CompleteTurnOutcome(f, chat, es_client, NoEnv).frame
    \/ f.pc = "done" /\ g = IdleFrame

\* The last assistant message of a history.
LastAssistant(h) ==
    h[CHOOSE i \in 1..Len(h) :
        /\ h[i].role = "assistant"
        /\ \A j \in (i + 1)..Len(h) : h[j].role # "assistant"]

\* The turn state of w is the one its own request and its own history give:
\* the first message is the opening prompt of its own incident, the turn
\* index counts its own tool messages, and the planned tool is the one of
\* its own last assistant message.
OwnTurnState(w) ==
    LET f == frame[w]
        h == f.conversation_history
        ev == ParseEvent(f.request.full_event_json)
    IN f.pc \in {"loop", "llm"} =>
         /\ f.user_id_from_event = ev.user_id
         /\ f.order_id_from_event = ev.order_id
         /\ Len(h) > 0 => h[1] = Message("user", PromptFor([f EXCEPT !.current_turn = 1]))
         /\ f.current_turn
              = 1 + Cardinality({i \in 1..Len(h) : h[i].role = "tool"})
         /\ f.last_tool_name_planned_in_prev_turn
              = IF f.current_turn = 1 THEN JNull
                ELSE ToolNameOf(LastAssistant(h).content)

\* A step belongs to one invocation, and is the step that invocation would
\* take alone; the clients that all invocations read do not change while
\* the service serves.
Isolated ==
    /\ \A w \in DOMAIN frame :
         \/ frame'[w] = frame[w] /\ obs'[w] = obs[w]
         \/ /\ SoloSuccessor(frame[w], frame'[w])
            /\ \A v \in DOMAIN frame \ {w} :
                 frame'[v] = frame[v] /\ obs'[v] = obs[v]
    /\ boot = "serving" => UNCHANGED <<ollama_client, es_client>>

\* C20: concurrent incidents each own their history and turn state.  Under
\* every interleaving of two invocations, a step of one leaves the messages,
\* the turn index and the planned tool of the other as they were, each
\* invocation's turn state is the one its own request and history give, and
\* each of its steps is the step it would take alone on the same model
\* output and tool result.
C20_InvocationsIsolated ==
    /\ [](\A w \in DOMAIN frame : OwnTurnState(w))
    /\ [][Isolated]_vars

\* Two invocations are under way on different incidents, at different turns
\* and with different planned tools.
C20_Witness ==
    \E w \in DOMAIN frame : \E v \in DOMAIN frame \ {w} :
        /\ Dispatched(w) /\ Dispatched(v)
        /\ frame[w].request # frame[v].request
        /\ frame[w].current_turn = 3 /\ frame[v].current_turn = 2
        /\ frame[w].last_tool_name_planned_in_prev_turn = JStr("retry_payment")
        /\ frame[v].last_tool_name_planned_in_prev_turn = JStr("get_payment_methods")

\* The number of times a worker's last tool call reached a collaborator.
Contacts(call) == call.posts + call.searches + call.tickets

\* C21: at most one tool call is executed per turn.  Every iteration calls
\* the model at most once; every model call is followed by at most one tool
\* call, which reaches at most one collaborator at most once and leaves one
\* tool message; and the turn index has advanced once per tool call.
C21_OneToolCallPerTurn ==
    \A w \in Workers :
        LET o == obs[w]
            f == frame[w]
            h == f.conversation_history
        IN /\ o.llm_calls <= o.iterations
           /\ o.iterations <= o.llm_calls + 1
           /\ o.tool_calls <= o.llm_calls
           /\ o.payment_posts + o.es_searches + o.tickets <= o.tool_calls
           /\ Contacts(o.last_call) <= 1
           /\ Cardinality({i \in 1..Len(h) : h[i].role = "tool"}) = o.tool_calls
           /\ f.pc \in {"loop", "llm"} => f.current_turn = 1 + o.tool_calls

\* An incident ended after three tool calls that reached the payment
\* service, the search index and the ticket system once each.
C21_Witness ==
    \E w \in Workers :
        /\ Ended(w)
        /\ obs[w].tool_calls = 3
        /\ obs[w].llm_calls = 4
        /\ obs[w].payment_posts = 1
        /\ obs[w].es_searches = 1
        /\ obs[w].tickets = 1

\* Message i of the history is the model planning the named tool.
PlannedAt(h, i, tool) ==
    /\ Len(h) >= i
    /\ h[i].role = "assistant"
    /\ IsEnvelopeText(h[i].content)
    /\ ToolNameOf(h[i].content) = JStr(tool)

\* Message i of the history is the model answering with text that is not
\* JSON.
TextAt(h, i) ==
    /\ Len(h) >= i
    /\ h[i].role = "assistant"
    /\ ~json_loads(h[i].content).ok

\* What the payment service answers to a retry that succeeded.
RetrySucceeded(content) ==
    \E oid \in NumericStrings :
        content = json_dumps(JDict(<< <<"status", JStr("success")>>,
                                      <<"transaction_id",
                                        JStr("txn_" \o oid \o "_paypal")>>,
                                      <<"reason", JNull>> >>))

\* Scenario A as far as it is given: both ids in the payload,
\* get_payment_methods planned on turn 1, retry_payment with card_B_paypal
\* on turn 2 and answered with success, text on turn 3.
ScenarioA(w) ==
    LET f == frame[w]
        h == f.conversation_history
    IN /\ f.user_id_from_event # JNull
       /\ f.order_id_from_event # JNull
       /\ PlannedAt(h, 2, "get_payment_methods")
       /\ PlannedAt(h, 5, "retry_payment")
       /\ dict_get(dict_get(json_loads(h[5].content).value, "tool_args", JNull),
                   "payment_method_id", JNull) = JStr("card_B_paypal")
       /\ h[6].role = "tool"
       /\ RetrySucceeded(h[6].content)
       /\ TextAt(h, 8)

\* C22: Scenario A.  With both ids present, get_payment_methods on turn 1,
\* a successful retry_payment with card_B_paypal on turn 2 and plain text on
\* turn 3, the invocation ends at turn 3 with status COMPLETED, the text as
\* its summary, and exactly two tool calls executed.
C22_ScenarioA ==
    \A w \in Workers :
        ScenarioA(w) =>
            /\ Ended(w)
            /\ Status(w) = "COMPLETED"
            /\ Summary(w) = frame[w].conversation_history[8].content
            /\ frame[w].current_turn = 3
            /\ Len(frame[w].conversation_history) = 8
            /\ obs[w].tool_calls = 2
            /\ obs[w].payment_posts = 2

C22_Witness ==
    \E w \in Workers :
        /\ ScenarioA(w)
        /\ Ended(w)
        /\ frame[w].conversation_history[3].content
             = json_dumps(JDict(<< <<"payment_methods", JList(<<ActiveMethod>>)>> >>))

\* Scenario B as far as it is given: get_payment_methods planned on turn 1,
\* query_knowledge_base on turn 2, escalate_to_human on turn 3, text on
\* turn 4.
ScenarioB(w) ==
    LET h == frame[w].conversation_history
    IN /\ PlannedAt(h, 2, "get_payment_methods")
       /\ PlannedAt(h, 5, "query_knowledge_base")
       /\ PlannedAt(h, 8, "escalate_to_human")
       /\ TextAt(h, 11)

\* The ticket that the escalation of message i made, as a tool message.
TicketMessage(h, i) ==
    LET order_id == dict_get(dict_get(json_loads(h[i].content).value,
                                      "tool_args", JNull), "order_id", JNull)
    IN Message("tool",
               json_dumps(JDict(<< <<"ticket_id", JStr("SIM" \o py_str(order_id))>>,
                                   <<"status",
                                     JStr("Escalation ticket created successfully.")>> >>)))

\* C23: Scenario B.  With get_payment_methods on turn 1, query_knowledge_base
\* on turn 2, escalate_to_human on turn 3 and plain text on turn 4, the
\* invocation ends at turn 4 with status COMPLETED and the text as its
\* summary; exactly three tool calls were executed, in that order, and the
\* ticket was created exactly once.
C23_ScenarioB ==
    \A w \in Workers :
        ScenarioB(w) =>
            LET h == frame[w].conversation_history
            IN /\ Ended(w)
               /\ Status(w) = "COMPLETED"
               /\ Summary(w) = h[11].content
               /\ frame[w].current_turn = 4
               /\ Len(h) = 11
               /\ obs[w].tool_calls = 3
               /\ h[3].role = "tool" /\ h[6].role = "tool"
               /\ h[9] = TicketMessage(h, 8)
               /\ obs[w].payment_posts = 1
               /\ obs[w].tickets = 1

C23_Witness ==
    \E w \in Workers :
        /\ ScenarioB(w)
        /\ Ended(w)
        /\ obs[w].es_searches = 1
        /\ obs[w].tickets = 1

\* C24: turn 1 always gets payment methods first.  In every incident the
\* first tool that the dispatcher executes is get_payment_methods.
C24_FirstToolIsGetPaymentMethods ==
    \A w \in Workers :
        LET h == frame[w].conversation_history
        IN (obs[w].tool_calls >= 1 /\ Len(h) >= 3 /\ h[3].role = "tool")
              => PlannedAt(h, 2, "get_payment_methods")

\* The prompt of a later turn as it reads when it carries the given result
\* of the named tool.
PromptCarrying(w, name, result) ==
    "Result of '" \o name.val \o "': " \o result
        \o (IF name \in {JStr("get_payment_methods"), JStr("query_knowledge_base")}
            THEN " order_id (" \o py_str(frame[w].order_id_from_event) \o ")"
            ELSE "")

\* C25: at the start of every turn after the first, the last message of the
\* history is the tool message with the result of the tool planned in the
\* previous turn; every prompt after the first carries that message's
\* content, never the fallback text.
C25_LastMessageIsToolResult ==
    \A w \in Workers :
        LET f == frame[w]
            h == f.conversation_history
            n == Len(h)
        IN /\ (f.pc = "loop" /\ f.current_turn > 1) =>
                /\ n >= 3
                /\ h[n] = Message("tool", json_dumps(f.tool_result))
                /\ h[n - 1].role = "assistant"
                /\ ToolNameOf(h[n - 1].content)
                     = f.last_tool_name_planned_in_prev_turn
           /\ \A i \in 2..n :
                h[i].role = "user" =>
                    /\ i >= 4
                    /\ h[i - 1].role = "tool"
                    /\ h[i - 1].content # NoToolResultText
                    /\ h[i].content
                         = PromptCarrying(w, ToolNameOf(h[i - 2].content),
                                          h[i - 1].content)

\* The prompt of turn 3 was built from the result of the tool of turn 2.
C25_Witness ==
    \E w \in Workers :
        /\ frame[w].pc = "llm"
        /\ frame[w].current_turn = 3
        /\ Len(frame[w].conversation_history) = 7
        /\ frame[w].conversation_history[6].role = "tool"

LoopErrorText == "Agent loop error."

\* C26: the guard at the end of the iteration never fires.  Whenever
\* response processing is left without a break, a tool was executed in that
\* turn; no incident ends through the guard or with its summary.
C26_LoopErrorUnreachable ==
    \A w \in Workers :
        /\ obs[w].exit # "loop_error"
        /\ frame[w].final_summary # LoopErrorText
        /\ Summary(w) # LoopErrorText
        /\ (frame[w].pc = "loop" /\ frame[w].current_turn > 1) =>
              /\ frame[w].tool_executed_this_turn
              /\ LastRole(w) = "tool"
        /\ (Ended(w) /\ LastRole(w) = "assistant") =>
              /\ ~frame[w].tool_executed_this_turn
              /\ obs[w].exit \in {"final_answer", "format_error", "unhandled"}

\* Control passed the guard after a tool call whose tool failed, and went
\* on to the next turn.
C26_Witness ==
    \E w \in Workers :
        /\ frame[w].pc = "loop"
        /\ frame[w].current_turn = 2
        /\ frame[w].tool_executed_this_turn
        /\ dict_has(frame[w].tool_result, "error")

====
